---- MODULE Spec2Model ----
(***************************************************************************)
(* bladerf_sink_c (lib/bladerf/bladerf_sink_c.cc): the bladeRF transmit    *)
(* sink of gr-osmosdr.  The model covers the sink's lifecycle (start,      *)
(* stop), the per-batch call (work, transmit_with_tags), the consecutive   *)
(* failure policy and the set_antenna stop / reconfigure / restart cycle.  *)
(*                                                                         *)
(* start(), stop() and work() hold d_mutex (gr::thread::scoped_lock) from  *)
(* their first statement that touches the sink's fields to their return,   *)
(* so each is one atomic action.  set_antenna() takes no lock of its own:  *)
(* it is modelled statement by statement, and the other threads' calls     *)
(* interleave with its statements.                                         *)
(*                                                                         *)
(* Every call leaves a record of what it did in obs (its inputs, the       *)
(* fields on entry, the device calls it made, what it returned); Return    *)
(* is the caller taking the result, after which the next call can be made. *)
(***************************************************************************)
EXTENDS Integers, Sequences, FiniteSets

\* ------------------------------------------------------------------ bounds

\* Largest noutput_items handed to work().
MaxN == 3

\* Largest number of tags get_tags_in_window() returns for one batch.
MaxTags == 2

\* Number of scratch-buffer pairs the modelled heap can hold.
MaxPairs == 2

\* work() is called while _failures is below MAX_CONSECUTIVE_FAILURES plus this.
MaxExtraFailures == 1

\* --------------------------------------------------------------- constants

\* bladerf_common.h (not among the sources): the threshold work() compares to.
MAX_CONSECUTIVE_FAILURES == 3

\* gr::block::WORK_DONE, returned at line 277.
WORK_DONE == -1

\* libbladeRF status codes: BLADERF_ERR_INVAL is returned at lines 336, 349, 358;
\* BLADERF_ERR_TIMEOUT stands for any non-zero status of a device call.
BLADERF_ERR_INVAL == -3

BLADERF_ERR_TIMEOUT == -6

\* int const INVALID_IDX = -1 (line 301).
INVALID_IDX == -1

\* bladerf_sync_tx(..., zeros, 4, ...) at lines 383-384: the flush length.
FLUSH_COUNT == 4

NULL == 0

BLADERF_META_FLAG_TX_NOW == "TX_NOW"

BLADERF_META_FLAG_TX_BURST_START == "TX_BURST_START"

BLADERF_META_FLAG_TX_BURST_END == "TX_BURST_END"

\* _layout: one channel or two (line 122).
BLADERF_TX_X1 == "BLADERF_TX_X1"

BLADERF_TX_X2 == "BLADERF_TX_X2"

\* num_streams(layout): the number of channels of a layout.
num_streams(layout) == IF layout = BLADERF_TX_X2 THEN 2 ELSE 1

\* _format: with or without per-transfer metadata.
BLADERF_FORMAT_SC16_Q11_META == "SC16_Q11_META"

BLADERF_FORMAT_SC16_Q11 == "SC16_Q11"

\* What a device call (bladerf_sync_tx, bladerf_sync_config,
\* bladerf_enable_module) can return: 0 or an error.
DevStatus == {0, BLADERF_ERR_TIMEOUT}

\* What reading the local `int status` (line 289) can yield while it has never
\* been assigned.
StackGarbage == {0, 1, BLADERF_ERR_INVAL, BLADERF_ERR_TIMEOUT}

VARIABLES
  _running,      \* bladerf_sink_c::_running
  _in_burst,     \* bladerf_sink_c::_in_burst
  _failures,     \* bladerf_common::_failures
  _16icbuf,      \* scratch buffer pointers: NULL or a heap block
  _32fcbuf,
  heap,          \* the blocks volk_malloc has handed out and volk_free has not taken back
  _format,       \* bladerf_common::_format, fixed at construction
  _layout,       \* bladerf_common::_layout, fixed at construction (line 122)
  sa_pc,         \* the set_antenna() caller's position
  was_running,   \* set_antenna()'s local _was_running
  obs,           \* what the last call did, until its caller takes the result
  prev_stop,     \* how the call before the current one ended, when it was stop()
  streak,        \* history: consecutive work() calls that ended with a non-zero status
  hist           \* history: what the hardware and the tag stream have seen so far

vars == <<_running, _in_burst, _failures, _16icbuf, _32fcbuf, heap, _format, _layout,
          sa_pc, was_running, obs, prev_stop, streak, hist>>

\* ------------------------------------------------------------------- heap

Blocks == 1 .. (2 * MaxPairs)

Min(S) == CHOOSE x \in S : \A y \in S : x <= y

\* volk_malloc: a block that is not live.
volk_malloc(h) == Min(Blocks \ h)

\* volk_free(p): free(NULL) does nothing.
volk_free(h, p) == h \ {p}

\* ----------------------------------------------------------- observations

Snapshot == [running |-> _running, in_burst |-> _in_burst, failures |-> _failures,
             b16 |-> _16icbuf, b32 |-> _32fcbuf, heap |-> heap, streak |-> streak,
             hist |-> hist]

\* The history of a sink nothing was sent to: the hardware has no burst open
\* (hw_burst), the tags seen so far are well-formed and every transfer
\* succeeded, with no burst open ("closed"; "open" with one open, "off" once a
\* batch was malformed or a transfer failed), and every batch of the current
\* streak of failed batches, if any, ended in a protocol error (only_proto).
NoHist == [hw_burst |-> FALSE, track |-> "closed", only_proto |-> TRUE]

\* The fields as the constructor leaves them (lines 71-74).
Constructed == [running |-> FALSE, in_burst |-> FALSE, failures |-> 0,
                b16 |-> NULL, b32 |-> NULL, heap |-> {}, streak |-> 0,
                hist |-> NoHist]

NoObs == [op |-> "none", by |-> "none", N |-> 0, tags |-> <<>>, pre |-> Constructed,
          log |-> <<>>, status |-> 0, uninit |-> FALSE, site |-> "none", at |-> 0,
          ret |-> 0, res |-> "none", began |-> FALSE, touched |-> {}, buf |-> <<>>]

\* A call by thread `by` that made the device calls `log` and ended `res`
\* ("returned" or "threw").
CallObs(op, by, pre, log, res) ==
  [op |-> op, by |-> by, N |-> 0, tags |-> <<>>, pre |-> pre, log |-> log,
   status |-> 0, uninit |-> FALSE, site |-> "none", at |-> 0, ret |-> 0, res |-> res,
   began |-> FALSE, touched |-> {}, buf |-> <<>>]

DevCall(name, status) == [call |-> name, status |-> status]

\* ------------------------------------------------------------ start, stop

\* start() without line 166: _in_burst is left as it was.
start_body_keeps_burst(s, cfg, en) ==
  IF cfg # 0
    THEN [post |-> s, log |-> <<DevCall("bladerf_sync_config", cfg)>>, res |-> "threw"]
  ELSE IF en # 0
    THEN [post |-> s,
          log |-> <<DevCall("bladerf_sync_config", cfg),
                    DevCall("bladerf_enable_module", en)>>,
          res |-> "threw"]
  ELSE LET p16 == volk_malloc(s.heap)
           p32 == volk_malloc(s.heap \cup {p16})
       IN  [post |-> [s EXCEPT !.b16 = p16, !.b32 = p32,
                               !.heap = s.heap \cup {p16, p32},
                               !.running = TRUE],
            log |-> <<DevCall("bladerf_sync_config", cfg),
                      DevCall("bladerf_enable_module", en)>>,
            res |-> "returned"]

\* start(), lines 158-192.  cfg and en are the statuses of bladerf_sync_config
\* and of the bladerf_enable_module loop (0, or the first failing status).
\* The result: the fields after the call, the device calls made, how it ended.
start_body(s, cfg, en) ==
  LET s1 == [s EXCEPT !.in_burst = FALSE]
  IN  IF cfg # 0
        THEN [post |-> s1, log |-> <<DevCall("bladerf_sync_config", cfg)>>,
              res |-> "threw"]
      ELSE IF en # 0
        THEN [post |-> s1,
              log |-> <<DevCall("bladerf_sync_config", cfg),
                        DevCall("bladerf_enable_module", en)>>,
              res |-> "threw"]
      ELSE LET p16 == volk_malloc(s1.heap)
               p32 == volk_malloc(s1.heap \cup {p16})
           IN  [post |-> [s1 EXCEPT !.b16 = p16, !.b32 = p32,
                                    !.heap = s1.heap \cup {p16, p32},
                                    !.running = TRUE],
                log |-> <<DevCall("bladerf_sync_config", cfg),
                          DevCall("bladerf_enable_module", en)>>,
                res |-> "returned"]

\* stop() without line 207: the buffers are freed and _running stays true.
stop_body_keeps_running(s, en) ==
  IF ~s.running
    THEN [post |-> s, log |-> <<>>, res |-> "returned"]
  ELSE IF en # 0
    THEN [post |-> s, log |-> <<DevCall("bladerf_enable_module", en)>>, res |-> "threw"]
  ELSE [post |-> [s EXCEPT !.heap = volk_free(volk_free(s.heap, s.b16), s.b32),
                           !.b16 = NULL, !.b32 = NULL],
        log |-> <<DevCall("bladerf_enable_module", en)>>,
        res |-> "returned"]

\* stop() without the early return of lines 202-205.
stop_body_unguarded(s, en) ==
  LET s1 == [s EXCEPT !.running = FALSE]
  IN  IF en # 0
        THEN [post |-> s1, log |-> <<DevCall("bladerf_enable_module", en)>>,
              res |-> "threw"]
      ELSE [post |-> [s1 EXCEPT !.heap = volk_free(volk_free(s1.heap, s1.b16), s1.b32),
                                !.b16 = NULL, !.b32 = NULL],
            log |-> <<DevCall("bladerf_enable_module", en)>>,
            res |-> "returned"]

\* stop(), lines 194-224.
stop_body(s, en) ==
  IF ~s.running
    THEN [post |-> s, log |-> <<>>, res |-> "returned"]
  ELSE LET s1 == [s EXCEPT !.running = FALSE]
       IN  IF en # 0
             THEN [post |-> s1, log |-> <<DevCall("bladerf_enable_module", en)>>,
                   res |-> "threw"]
           ELSE [post |-> [s1 EXCEPT !.heap = volk_free(volk_free(s1.heap, s1.b16), s1.b32),
                                     !.b16 = NULL, !.b32 = NULL],
                 log |-> <<DevCall("bladerf_enable_module", en)>>,
                 res |-> "returned"]

\* The sink's fields take the values of `post`.
Install(post) ==
  /\ _running' = post.running
  /\ _in_burst' = post.in_burst
  /\ _failures' = post.failures
  /\ _16icbuf' = post.b16
  /\ _32fcbuf' = post.b32
  /\ heap' = post.heap
  /\ streak' = post.streak
  /\ hist' = post.hist

\* start() was called: a new run of the stream begins, with no burst open on
\* either side.
Restarted(post) == [post EXCEPT !.hist.hw_burst = FALSE, !.hist.track = "closed"]

\* The heap has room for the pair start() allocates.
HeapHasRoom == Cardinality(Blocks \ heap) >= 2

Idle == obs.op = "none"

start ==
  /\ Idle
  /\ HeapHasRoom
  /\ \E cfg \in DevStatus, en \in DevStatus :
       LET r == start_body(Snapshot, cfg, en)
       IN  /\ Install(Restarted(r.post))
           /\ obs' = CallObs("start", "api", Snapshot, r.log, r.res)
  /\ UNCHANGED <<_format, _layout, sa_pc, was_running, prev_stop>>

stop ==
  /\ Idle
  /\ \E en \in DevStatus :
       LET r == stop_body(Snapshot, en)
       IN  /\ Install(r.post)
           /\ obs' = CallObs("stop", "api", Snapshot, r.log, r.res)
  /\ UNCHANGED <<_format, _layout, sa_pc, was_running, prev_stop>>

\* ----------------------------------------------------- transmit_with_tags

\* The tag keys: the two the sink recognises, and any other.
TagKeys == {"tx_sob", "tx_eob", "other"}

\* A tag of the window [0, N): its key, and rel = tag.offset - nitems_read(0),
\* the offset relative to the start of the batch (lines 338, 353).  The offset
\* is read for the two recognised keys only, so a tag with another key stands
\* at offset 0 for all of its offsets.
TagsOf(N) == {tag \in [key : TagKeys, rel : 0 .. (N - 1)] : tag.key = "other" => tag.rel = 0}

\* What get_tags_in_window(tags, 0, 0, noutput_items) can deliver (line 314).
TagLists(N) == UNION {[1 .. k -> TagsOf(N)] : k \in 0 .. MaxTags}

\* bladerf_sync_tx(dev, buf + 2*idx, count, meta, timeout) while tag number `at`
\* is processed: the transfer as the device sees it, for each status it can return.
bladerf_sync_tx(buf, idx, count, meta, flags, at) ==
  {[call |-> "bladerf_sync_tx", buf |-> buf, idx |-> idx, count |-> count,
    meta |-> meta, flags |-> flags, at |-> at, status |-> st] : st \in DevStatus}

\* The locals of transmit_with_tags on entry (lines 289-304) with _in_burst;
\* `status` holds no value until assigned is TRUE; site is "run" until the
\* function returns, then the line it returned at; at is the number of the tag
\* being processed (0 before the loop, Len(tags) + 1 after it).
tw_entry(in_burst, N) ==
  [in_burst |-> in_burst, start_idx |-> 0, end_idx |-> N - 1, flags |-> {},
   log |-> <<>>, status |-> 0, assigned |-> FALSE, site |-> "run", at |-> 0]

\* tw_no_tags with the burst-start flags left on a mid-burst transfer.
tw_no_tags_flagged(t, N) ==
  IF t.in_burst
    THEN {[t EXCEPT !.log = Append(@, tx), !.status = tx.status, !.assigned = TRUE,
                    !.site = "L320"] :
            tx \in bladerf_sync_tx("samples", 0, N, TRUE,
                                   {BLADERF_META_FLAG_TX_NOW,
                                    BLADERF_META_FLAG_TX_BURST_START}, 0)}
    ELSE {t}

\* Lines 316-326: no tags at all.  In a burst the whole batch is sent and its
\* status returned; otherwise the batch is dropped and control falls through.
tw_no_tags(t, N) ==
  IF t.in_burst
    THEN {[t EXCEPT !.log = Append(@, tx), !.status = tx.status, !.assigned = TRUE, !.site = "L320"] :
            tx \in bladerf_sync_tx("samples", 0, N, TRUE, t.flags, 0)}
    ELSE {t}

\* tw_sob without the check for a burst that is already open.
tw_sob_unchecked(t, tag, at) ==
  {[t EXCEPT !.start_idx = tag.rel,
             !.flags = @ \cup {BLADERF_META_FLAG_TX_NOW, BLADERF_META_FLAG_TX_BURST_START},
             !.in_burst = TRUE]}

\* tw_sob without line 342: the burst is not recorded as open.
tw_sob_forgets(t, tag, at) ==
  IF t.in_burst
    THEN {[t EXCEPT !.status = BLADERF_ERR_INVAL, !.assigned = TRUE, !.site = "L336"]}
    ELSE {[t EXCEPT !.start_idx = tag.rel,
                    !.flags = @ \cup {BLADERF_META_FLAG_TX_NOW,
                                      BLADERF_META_FLAG_TX_BURST_START}]}

\* Lines 332-344: a tx_sob tag.
tw_sob(t, tag, at) ==
  IF t.in_burst
    THEN {[t EXCEPT !.status = BLADERF_ERR_INVAL, !.assigned = TRUE, !.site = "L336"]}
    ELSE {[t EXCEPT !.start_idx = tag.rel,
                    !.flags = @ \cup {BLADERF_META_FLAG_TX_NOW,
                                      BLADERF_META_FLAG_TX_BURST_START},
                    !.in_burst = TRUE]}

\* tw_flush without line 380: the start flags stay set on the flush.
tw_flush_keeps_flags(t, at, N) ==
  LET flags == t.flags \cup {BLADERF_META_FLAG_TX_BURST_END}
  IN  {[t EXCEPT !.log = Append(@, tx), !.status = tx.status, !.assigned = TRUE,
                 !.start_idx = INVALID_IDX, !.end_idx = N - 1, !.flags = {},
                 !.in_burst = FALSE,
                 !.site = IF tx.status # 0 THEN "L394" ELSE "run"] :
         tx \in bladerf_sync_tx("zeros", 0, FLUSH_COUNT, TRUE, flags, at)}

\* Lines 380-395: the flush of zeros that closes the burst, after the data
\* transfer of t succeeded; then the locals and _in_burst are reset.
tw_flush(t, at, N) ==
  LET flags == (t.flags \ {BLADERF_META_FLAG_TX_NOW, BLADERF_META_FLAG_TX_BURST_START})
                 \cup {BLADERF_META_FLAG_TX_BURST_END}
  IN  {[t EXCEPT !.log = Append(@, tx), !.status = tx.status, !.assigned = TRUE,
                 !.start_idx = INVALID_IDX, !.end_idx = N - 1, !.flags = {},
                 !.in_burst = FALSE,
                 !.site = IF tx.status # 0 THEN "L394" ELSE "run"] :
         tx \in bladerf_sync_tx("zeros", 0, FLUSH_COUNT, TRUE, flags, at)}

\* tw_eob without the check of lines 347-350 for a burst that is not open.
tw_eob_unchecked(t, tag, at, N) ==
  LET t1 == [t EXCEPT !.end_idx = tag.rel]
  IN  IF t1.start_idx = INVALID_IDX \/ t1.start_idx > t1.end_idx
        THEN {[t1 EXCEPT !.status = BLADERF_ERR_INVAL, !.assigned = TRUE, !.site = "L358"]}
      ELSE UNION {
        LET t2 == [t1 EXCEPT !.log = Append(@, tx), !.status = tx.status, !.assigned = TRUE]
        IN  IF tx.status # 0
              THEN {[t2 EXCEPT !.site = "L369"]}
              ELSE tw_flush(t2, at, N) :
        tx \in bladerf_sync_tx("samples", t1.start_idx,
                               t1.end_idx - t1.start_idx + 1, TRUE, t1.flags, at)}

\* tw_eob without the index check of lines 356-359.
tw_eob_any_range(t, tag, at, N) ==
  IF ~t.in_burst
    THEN {[t EXCEPT !.status = BLADERF_ERR_INVAL, !.assigned = TRUE, !.site = "L349"]}
  ELSE LET t1 == [t EXCEPT !.end_idx = tag.rel]
       IN  UNION {
             LET t2 == [t1 EXCEPT !.log = Append(@, tx), !.status = tx.status,
                                  !.assigned = TRUE]
             IN  IF tx.status # 0
                   THEN {[t2 EXCEPT !.site = "L369"]}
                   ELSE tw_flush(t2, at, N) :
             tx \in bladerf_sync_tx("samples", t1.start_idx,
                                    t1.end_idx - t1.start_idx + 1, TRUE, t1.flags, at)}

\* tw_eob with the state reset of lines 386-390 done before the data transfer's
\* status is looked at: a failed data transfer closes the burst too.
tw_eob_reset_first(t, tag, at, N) ==
  IF ~t.in_burst
    THEN {[t EXCEPT !.status = BLADERF_ERR_INVAL, !.assigned = TRUE, !.site = "L349"]}
  ELSE LET t1 == [t EXCEPT !.end_idx = tag.rel]
       IN  IF t1.start_idx = INVALID_IDX \/ t1.start_idx > t1.end_idx
             THEN {[t1 EXCEPT !.status = BLADERF_ERR_INVAL, !.assigned = TRUE,
                              !.site = "L358"]}
           ELSE UNION {
             LET t2 == [t1 EXCEPT !.log = Append(@, tx), !.status = tx.status,
                                  !.assigned = TRUE]
             IN  IF tx.status # 0
                   THEN {[t2 EXCEPT !.site = "L369", !.in_burst = FALSE]}
                   ELSE tw_flush(t2, at, N) :
             tx \in bladerf_sync_tx("samples", t1.start_idx,
                                    t1.end_idx - t1.start_idx + 1, TRUE, t1.flags, at)}

\* Lines 346-396: a tx_eob tag.
tw_eob(t, tag, at, N) ==
  IF ~t.in_burst
    THEN {[t EXCEPT !.status = BLADERF_ERR_INVAL, !.assigned = TRUE, !.site = "L349"]}
  ELSE LET t1 == [t EXCEPT !.end_idx = tag.rel]
       IN  IF t1.start_idx = INVALID_IDX \/ t1.start_idx > t1.end_idx
             THEN {[t1 EXCEPT !.status = BLADERF_ERR_INVAL, !.assigned = TRUE, !.site = "L358"]}
           ELSE UNION {
             LET t2 == [t1 EXCEPT !.log = Append(@, tx), !.status = tx.status, !.assigned = TRUE]
             IN  IF tx.status # 0
                   THEN {[t2 EXCEPT !.site = "L369"]}
                   ELSE tw_flush(t2, at, N) :
             tx \in bladerf_sync_tx("samples", t1.start_idx,
                                    t1.end_idx - t1.start_idx + 1, TRUE, t1.flags, at)}

\* One iteration of BOOST_FOREACH(gr::tag_t tag, tags), lines 328-397.
tw_tag(t, tag, at, N) ==
  IF tag.key = "tx_sob" THEN tw_sob(t, tag, at)
  ELSE IF tag.key = "tx_eob" THEN tw_eob(t, tag, at, N)
  ELSE {t}

\* The loop from tag number `at` on; a run that has returned stays as it is.
RECURSIVE tw_loop(_, _, _, _)
tw_loop(ts, tags, at, N) ==
  IF at > Len(tags) THEN ts
  ELSE tw_loop(UNION {IF t.site # "run" THEN {t}
                      ELSE tw_tag([t EXCEPT !.at = at], tags[at], at, N) : t \in ts},
               tags, at + 1, N)

\* tw_tail with count = end_idx - start_idx, one sample short.
tw_tail_short(t, at) ==
  IF t.in_burst
    THEN {[t EXCEPT !.log = Append(@, tx), !.status = tx.status, !.assigned = TRUE,
                    !.site = "L410"] :
            tx \in bladerf_sync_tx("samples", t.start_idx,
                                   t.end_idx - t.start_idx, TRUE, t.flags, at)}
    ELSE {[t EXCEPT !.site = "L410"]}

\* Lines 399-410: after the loop a burst that is still open is sent to end_idx,
\* and `status` is returned, assigned or not.
tw_tail(t, at) ==
  IF t.in_burst
    THEN {[t EXCEPT !.log = Append(@, tx), !.status = tx.status, !.assigned = TRUE, !.site = "L410"] :
            tx \in bladerf_sync_tx("samples", t.start_idx,
                                   t.end_idx - t.start_idx + 1, TRUE, t.flags, at)}
    ELSE {[t EXCEPT !.site = "L410"]}

\* The value the caller receives: `status`, or whatever the stack held when it
\* was never assigned.
tw_return(t) ==
  IF ~t.assigned
    THEN {[in_burst |-> t.in_burst, log |-> t.log, status |-> g, site |-> t.site,
           at |-> t.at, uninit |-> TRUE] : g \in StackGarbage}
    ELSE {[in_burst |-> t.in_burst, log |-> t.log, status |-> t.status, site |-> t.site,
           at |-> t.at, uninit |-> FALSE]}

\* transmit_with_tags(samples, noutput_items), lines 286-411: every outcome, over
\* the statuses the device can return.
transmit_with_tags(in_burst, N, tags) ==
  LET t0    == tw_entry(in_burst, N)
      first == IF Len(tags) = 0 THEN tw_no_tags(t0, N) ELSE {t0}
      loop  == tw_loop(first, tags, 1, N)
      last  == UNION {IF t.site # "run" THEN {t}
                      ELSE tw_tail([t EXCEPT !.at = Len(tags) + 1], Len(tags) + 1) : t \in loop}
  IN  UNION {tw_return(t) : t \in last}

\* ------------------------------------------------------------------- work

\* handle_failure comparing with > instead of >=: one failure too late.
handle_failure_late(failures, status, N) ==
  IF status # 0
    THEN IF failures + 1 > MAX_CONSECUTIVE_FAILURES
           THEN [failures |-> failures + 1, ret |-> WORK_DONE]
           ELSE [failures |-> failures + 1, ret |-> N]
    ELSE [failures |-> 0, ret |-> N]

\* handle_failure without the else branch of lines 279-281: no reset.
handle_failure_no_reset(failures, status, N) ==
  IF status # 0
    THEN IF failures + 1 >= MAX_CONSECUTIVE_FAILURES
           THEN [failures |-> failures + 1, ret |-> WORK_DONE]
           ELSE [failures |-> failures + 1, ret |-> N]
    ELSE [failures |-> failures, ret |-> N]

\* handle_failure counting hardware errors only: a protocol error
\* (BLADERF_ERR_INVAL) leaves the counter alone.
handle_failure_hw_only(failures, status, N) ==
  IF status = BLADERF_ERR_INVAL
    THEN [failures |-> failures, ret |-> N]
  ELSE IF status # 0
    THEN IF failures + 1 >= MAX_CONSECUTIVE_FAILURES
           THEN [failures |-> failures + 1, ret |-> WORK_DONE]
           ELSE [failures |-> failures + 1, ret |-> N]
  ELSE [failures |-> 0, ret |-> N]

\* Lines 270-283: the failure counter and work()'s return value.
handle_failure(failures, status, N) ==
  IF status # 0
    THEN IF failures + 1 >= MAX_CONSECUTIVE_FAILURES
           THEN [failures |-> failures + 1, ret |-> WORK_DONE]
           ELSE [failures |-> failures + 1, ret |-> N]
    ELSE [failures |-> 0, ret |-> N]

\* Lines 262-268: the transmit step, by format.
work_transmit(format, in_burst, N, tags) ==
  IF format = BLADERF_FORMAT_SC16_Q11_META
    THEN transmit_with_tags(in_burst, N, tags)
    ELSE {[in_burst |-> in_burst, log |-> <<tx>>, status |-> tx.status, site |-> "L266",
           at |-> 0, uninit |-> FALSE] :
            tx \in bladerf_sync_tx("samples", 0, N, FALSE, {}, 0)}

\* ---------------------------------------------------------------- history

\* The return sites of transmit_with_tags that report a protocol error.
ProtocolSites == {"L336", "L349", "L358"}

\* Whether the hardware has a burst open after the transfers of `log`, given h
\* before them: a successful transfer with the burst-start flag opens one, the
\* zero flush closes it.
RECURSIVE HwAfter(_, _)
HwAfter(h, log) ==
  IF log = <<>>
    THEN h
    ELSE LET tx == Head(log)
         IN  HwAfter(IF tx.buf = "zeros" THEN FALSE
                     ELSE IF BLADERF_META_FLAG_TX_BURST_START \in tx.flags /\ tx.status = 0
                            THEN TRUE
                            ELSE h,
                     Tail(log))

\* The burst tags `rec`, met with a burst open or not and the last boundary at
\* `last`, alternate start / end in offset order: an end is at or after its
\* start, a start is after the end before it.
RECURSIVE WellFormed(_, _, _)
WellFormed(open, last, rec) ==
  IF rec = <<>>
    THEN TRUE
    ELSE LET tag == Head(rec)
         IN  IF tag.key = "tx_sob"
               THEN ~open /\ tag.rel > last /\ WellFormed(TRUE, tag.rel, Tail(rec))
               ELSE open /\ tag.rel >= last /\ WellFormed(FALSE, tag.rel, Tail(rec))

BurstTags(tags) == SelectSeq(tags, LAMBDA tag : tag.key \in {"tx_sob", "tx_eob"})

\* A batch is well-formed when its burst tags continue the stream's.
WellFormedBatch(open, tags) == WellFormed(open, IF open THEN 0 ELSE -1, BurstTags(tags))

\* A burst is open after the well-formed tags of a batch.
OpenAfter(open, tags) ==
  IF BurstTags(tags) = <<>>
    THEN open
    ELSE BurstTags(tags)[Len(BurstTags(tags))].key = "tx_sob"

HistAfter(h, in_burst, N, tags, r) ==
  IF _format # BLADERF_FORMAT_SC16_Q11_META
    THEN h
    ELSE [hw_burst |-> HwAfter(h.hw_burst, r.log),
          track |-> IF \/ h.track = "off"
                       \/ ~WellFormedBatch(h.track = "open", tags)
                       \/ \E i \in 1 .. Len(r.log) : r.log[i].status # 0
                      THEN "off"
                    ELSE IF OpenAfter(h.track = "open", tags) THEN "open"
                    ELSE "closed",
          only_proto |-> (r.status = 0 \/ (h.only_proto /\ r.site \in ProtocolSites))]

\* The tags work() gets to see: get_tags_in_window is called only by
\* transmit_with_tags, so only while running in the metadata format.
TagInputs(N) ==
  IF _running /\ _format = BLADERF_FORMAT_SC16_Q11_META THEN TagLists(N) ELSE {<<>>}

\* The batch sizes the scheduler hands to work(): multiples of the channel
\* count (set_output_multiple, line 119).
Batches == {n \in 1 .. MaxN : n % num_streams(_layout) = 0}

\* Lines 240-255: the input copied into _32fcbuf, a sample written as the
\* channel and the frame it comes from.  With several channels the loop runs
\* noutput_items / nstreams times and takes one frame of each channel per
\* round; with one channel the batch is copied whole.
copy_input(noutput_items, nstreams) ==
  IF nstreams > 1
    THEN [k \in 1 .. (noutput_items \div nstreams) * nstreams |->
            [ch |-> (k - 1) % nstreams, frame |-> (k - 1) \div nstreams]]
    ELSE [k \in 1 .. noutput_items |-> [ch |-> 0, frame |-> k - 1]]

\* The 16-bit fixed-point sample a float sample is scaled to.
sc16q11(sample) == [fmt |-> "sc16q11", of |-> sample]

\* Lines 257-260: num_points floats, two per complex sample, converted from
\* _32fcbuf into _16icbuf; a slot the copy did not write holds what was there.
volk_32f_s32f_convert_16i(in, num_points) ==
  [k \in 1 .. num_points \div 2 |-> sc16q11(IF k <= Len(in) THEN in[k] ELSE "stale")]

\* The scratch buffers work() writes and reads: _32fcbuf at lines 245-254 and
\* 259, _16icbuf at lines 259-267; none when it returns at line 237.
scratch_used == IF _running THEN {_16icbuf, _32fcbuf} ELSE {}

WorkObs(N, tags, r, ret) ==
  [op |-> "work", by |-> "api", N |-> N, tags |-> tags, pre |-> Snapshot, log |-> r.log,
   status |-> r.status, uninit |-> r.uninit, site |-> r.site, at |-> r.at, ret |-> ret,
   res |-> "returned", began |-> FALSE, touched |-> scratch_used,
   buf |-> IF _running
             THEN volk_32f_s32f_convert_16i(copy_input(N, num_streams(_layout)), 2 * N)
             ELSE <<>>]

\* Line 237: work() on a sink that is not running.
work_not_running == [in_burst |-> _in_burst, log |-> <<>>, status |-> 0, site |-> "L237",
                     at |-> 0, uninit |-> FALSE]

\* work(noutput_items, input_items, output_items), lines 226-284.  The copy
\* and the conversion into the scratch buffers (lines 240-260) change none of
\* the fields below; the transmit step and the failure policy do.
work ==
  /\ Idle
  /\ _failures < MAX_CONSECUTIVE_FAILURES + MaxExtraFailures
  /\ \E N \in Batches :
       \E tags \in TagInputs(N) :
         IF ~_running
           THEN /\ obs' = WorkObs(N, tags, work_not_running, 0)
                /\ UNCHANGED <<_running, _in_burst, _failures, _16icbuf, _32fcbuf,
                               heap, streak, hist>>
           ELSE \E r \in work_transmit(_format, _in_burst, N, tags) :
                  LET h == handle_failure(_failures, r.status, N)
                  IN  /\ _in_burst' = r.in_burst
                      /\ _failures' = h.failures
                      /\ streak' = IF r.status # 0 THEN streak + 1 ELSE 0
                      /\ hist' = HistAfter(hist, _in_burst, N, tags, r)
                      /\ obs' = WorkObs(N, tags, r, h.ret)
                      /\ UNCHANGED <<_running, _16icbuf, _32fcbuf, heap>>
  /\ UNCHANGED <<_format, _layout, sa_pc, was_running, prev_stop>>

\* ------------------------------------------------------------ set_antenna

\* A call made from inside set_antenna(), at line `site` of it.
SaObs(op, pre, log, res, site) ==
  [CallObs(op, "set_antenna", pre, log, res) EXCEPT !.site = site, !.began = was_running]

\* Line 512: bool _was_running = _running, read without the lock.  The writers
\* of _running are start() and stop(); the read yields the value before or
\* after a concurrent one, which is this step taken before or after it.
sa_read ==
  /\ Idle
  /\ sa_pc = "idle"
  /\ was_running' = _running
  /\ sa_pc' = "L514"
  /\ UNCHANGED <<_running, _in_burst, _failures, _16icbuf, _32fcbuf, heap, _format, _layout,
                 obs, prev_stop, streak, hist>>

\* Lines 514-516: if (_was_running) stop().  An exception of stop() leaves
\* set_antenna().
sa_stop ==
  /\ Idle
  /\ sa_pc = "L514"
  /\ IF was_running
       THEN \E en \in DevStatus :
              LET r == stop_body(Snapshot, en)
              IN  /\ Install(r.post)
                  /\ obs' = SaObs("stop", Snapshot, r.log, r.res, "L515")
                  /\ sa_pc' = IF r.res = "threw" THEN "idle" ELSE "L518"
                  /\ was_running' = (r.res # "threw" /\ was_running)
       ELSE /\ sa_pc' = "L518"
            /\ UNCHANGED <<_running, _in_burst, _failures, _16icbuf, _32fcbuf, heap,
                           streak, hist, obs, was_running>>
  /\ UNCHANGED <<_format, _layout, prev_stop>>

\* Line 518: bladerf_common::set_antenna(BLADERF_TX, chan, antenna), a device
\* call that touches none of the sink's fields.
sa_set ==
  /\ Idle
  /\ sa_pc = "L518"
  /\ sa_pc' = "L520"
  /\ UNCHANGED <<_running, _in_burst, _failures, _16icbuf, _32fcbuf, heap, _format, _layout,
                 was_running, obs, prev_stop, streak, hist>>

\* Lines 520-524: if (_was_running) start(); return get_antenna(chan).
sa_start ==
  /\ Idle
  /\ sa_pc = "L520"
  /\ IF was_running
       THEN /\ HeapHasRoom
            /\ \E cfg \in DevStatus, en \in DevStatus :
                 LET r == start_body(Snapshot, cfg, en)
                 IN  /\ Install(Restarted(r.post))
                     /\ obs' = SaObs("start", Snapshot, r.log, r.res, "L521")
       ELSE /\ obs' = SaObs("set_antenna", Snapshot, <<>>, "returned", "L524")
            /\ UNCHANGED <<_running, _in_burst, _failures, _16icbuf, _32fcbuf, heap,
                           streak, hist>>
  /\ sa_pc' = "idle"
  /\ was_running' = FALSE
  /\ UNCHANGED <<_format, _layout, prev_stop>>

\* The caller takes the call's result.
Return ==
  /\ ~Idle
  /\ obs' = NoObs
  /\ prev_stop' = IF obs.op = "stop" THEN obs.res ELSE "none"
  /\ UNCHANGED <<_running, _in_burst, _failures, _16icbuf, _32fcbuf, heap, _format, _layout,
                 sa_pc, was_running, streak, hist>>

Init ==
  /\ _running = FALSE
  /\ _in_burst = FALSE
  /\ _failures = 0
  /\ _16icbuf = NULL
  /\ _32fcbuf = NULL
  /\ heap = {}
  /\ _format \in {BLADERF_FORMAT_SC16_Q11_META, BLADERF_FORMAT_SC16_Q11}
  /\ _layout \in {BLADERF_TX_X1, BLADERF_TX_X2}
  /\ sa_pc = "idle"
  /\ was_running = FALSE
  /\ obs = NoObs
  /\ prev_stop = "none"
  /\ streak = 0
  /\ hist = NoHist

Next ==
  \/ start
  \/ stop
  \/ work
  \/ sa_read
  \/ sa_stop
  \/ sa_set
  \/ sa_start
  \/ Return

Spec == Init /\ [][Next]_vars
\* ----------------------------------------------------------------- claims

\* The call just made was work() on a running sink in the metadata format, so
\* transmit_with_tags ran.
MetaWork ==
  /\ obs.op = "work"
  /\ obs.pre.running
  /\ _format = BLADERF_FORMAT_SC16_Q11_META

IsBurstTag(tag) == tag.key \in {"tx_sob", "tx_eob"}

\* The tags of the batch the sink recognises, in the order delivered.
Recognised == SelectSeq(obs.tags, IsBurstTag)

AllTransfersSucceeded == \A i \in 1 .. Len(obs.log) : obs.log[i].status = 0

\* A transfer of `count` samples of the batch from index idx, with metadata
\* flags `flags`.
IsDataTx(tx, idx, count, flags) ==
  /\ tx.call = "bladerf_sync_tx"
  /\ tx.buf = "samples"
  /\ tx.idx = idx
  /\ tx.count = count
  /\ tx.meta
  /\ tx.flags = flags

\* The flush: FLUSH_COUNT zero samples with the burst-end flag alone.
IsFlushTx(tx) ==
  /\ tx.call = "bladerf_sync_tx"
  /\ tx.buf = "zeros"
  /\ tx.count = FLUSH_COUNT
  /\ tx.meta
  /\ tx.flags = {BLADERF_META_FLAG_TX_BURST_END}

StartFlags == {BLADERF_META_FLAG_TX_NOW, BLADERF_META_FLAG_TX_BURST_START}

NoTagsIdle == MetaWork /\ obs.tags = <<>> /\ ~obs.pre.in_burst

\* C1: a batch with no tags and in_burst false on entry is dropped: no transfer,
\* in_burst stays false, transmit_with_tags returns 0, work() returns N and the
\* failure counter is not incremented.
C1_DropReportsSuccess ==
  NoTagsIdle =>
    /\ obs.log = <<>>
    /\ ~_in_burst
    /\ obs.status = 0
    /\ obs.ret = obs.N
    /\ _failures <= obs.pre.failures

NoTagsInBurst == MetaWork /\ obs.tags = <<>> /\ obs.pre.in_burst

\* C2: a batch with no tags and in_burst true on entry is sent as exactly one
\* transfer of the whole batch (index 0, count N) with no flag set; in_burst
\* stays true and the status returned is that transfer's.
C2_MidBurstWholeBatch ==
  NoTagsInBurst =>
    /\ Len(obs.log) = 1
    /\ IsDataTx(obs.log[1], 0, obs.N, {})
    /\ _in_burst
    /\ obs.status = obs.log[1].status

\* C2's case, with the transfer failing: the failure is what the call returns.
C2_Witness ==
  /\ NoTagsInBurst
  /\ Len(obs.log) = 1
  /\ obs.status = BLADERF_ERR_TIMEOUT
  /\ obs.N = MaxN

\* The recognised tags are one burst-start at s then one burst-end at e >= s,
\* in_burst was false on entry and no transfer failed.
StartThenEnd ==
  /\ MetaWork
  /\ ~obs.pre.in_burst
  /\ Len(Recognised) = 2
  /\ Recognised[1].key = "tx_sob"
  /\ Recognised[2].key = "tx_eob"
  /\ Recognised[1].rel <= Recognised[2].rel
  /\ AllTransfersSucceeded

\* C3: burst-start at s and burst-end at e in one batch, all transfers
\* succeeding: exactly two transfers, e-s+1 samples from index s with flags
\* {start-now, burst-start}, then the zero flush with flags {burst-end};
\* in_burst is false afterwards and the call reports success.
C3_StartEndTwoTransfers ==
  StartThenEnd =>
    /\ Len(obs.log) = 2
    /\ IsDataTx(obs.log[1], Recognised[1].rel,
                Recognised[2].rel - Recognised[1].rel + 1, StartFlags)
    /\ IsFlushTx(obs.log[2])
    /\ ~_in_burst
    /\ obs.status = 0
    /\ obs.ret = obs.N
    /\ _failures = 0

\* C3's case with samples before and after the burst in the batch.
C3_Witness ==
  /\ StartThenEnd
  /\ Recognised[1].rel = 1
  /\ Recognised[2].rel = 1
  /\ obs.N = 3
  /\ Len(obs.log) = 2

\* The only recognised tag is a burst-start, and in_burst was false on entry.
StartOnly ==
  /\ MetaWork
  /\ ~obs.pre.in_burst
  /\ Len(Recognised) = 1
  /\ Recognised[1].key = "tx_sob"

\* C4: a lone burst-start at s: exactly one transfer, of the N-s samples
\* [s..N-1], with flags {start-now, burst-start}; nothing before s is sent and
\* in_burst is true afterwards.
C4_StartOnlyToEndOfBatch ==
  StartOnly =>
    /\ Len(obs.log) = 1
    /\ IsDataTx(obs.log[1], Recognised[1].rel, obs.N - Recognised[1].rel, StartFlags)
    /\ _in_burst

\* C4's case with s > 0, so that samples [0..s-1] exist and are left out.
C4_Witness ==
  /\ StartOnly
  /\ Recognised[1].rel = 1
  /\ obs.N = 3
  /\ Len(obs.log) = 1
  /\ obs.log[1].count = 2

\* The first recognised tag is a burst-start that finds the burst open: on
\* entry, or opened by a burst-start directly before it.
StartWhileOpen ==
  /\ MetaWork
  /\ \/ /\ obs.pre.in_burst
        /\ Len(Recognised) >= 1
        /\ Recognised[1].key = "tx_sob"
     \/ /\ ~obs.pre.in_burst
        /\ Len(Recognised) >= 2
        /\ Recognised[1].key = "tx_sob"
        /\ Recognised[2].key = "tx_sob"

\* C5: a burst-start processed while in_burst is true makes the call return
\* BLADERF_ERR_INVAL with no transfer issued at or after that tag; a batch
\* whose first recognised tag is such a burst-start issues no transfer at all.
C5_StartInBurstIsInvalid ==
  /\ (MetaWork /\ obs.site = "L336") =>
       /\ obs.status = BLADERF_ERR_INVAL
       /\ obs.tags[obs.at].key = "tx_sob"
       /\ \A i \in 1 .. Len(obs.log) : obs.log[i].at < obs.at
  /\ StartWhileOpen =>
       /\ obs.site = "L336"
       /\ obs.status = BLADERF_ERR_INVAL
       /\ obs.log = <<>>

\* C5's case: the batch arrives inside a burst and carries a burst-start.
C5_Witness ==
  /\ StartWhileOpen
  /\ obs.pre.in_burst
  /\ obs.status = BLADERF_ERR_INVAL
  /\ obs.log = <<>>
\* The call just made was work() on a running sink.
RunningWork == obs.op = "work" /\ obs.pre.running

\* C6 as stated: WORK_DONE comes from the call that follows
\* MAX_CONSECUTIVE_FAILURES consecutive failing calls, and each of those
\* failing calls returns the requested item count.
C6_DoneOnTheCallAfter ==
  RunningWork =>
    /\ (obs.ret = WORK_DONE => obs.pre.streak = MAX_CONSECUTIVE_FAILURES)
    /\ (obs.status # 0 /\ obs.pre.streak < MAX_CONSECUTIVE_FAILURES => obs.ret = obs.N)

\* C6, amended: the counter is the number of consecutive failing calls; a
\* failing call returns WORK_DONE iff it is at least the
\* MAX_CONSECUTIVE_FAILURES-th in a row, any other call returns the requested
\* item count; after a successful call the counter is zero.
C6_DoneOnTheThresholdCall ==
  RunningWork =>
    /\ _failures = streak
    /\ (obs.ret = WORK_DONE <=> (obs.status # 0 /\ streak >= MAX_CONSECUTIVE_FAILURES))
    /\ (obs.ret # WORK_DONE => obs.ret = obs.N)
    /\ (obs.status = 0 => _failures = 0)

\* The MAX_CONSECUTIVE_FAILURES-th failing call in a row: it ends the stream
\* itself.
C6_Witness ==
  /\ RunningWork
  /\ obs.status # 0
  /\ obs.pre.streak = MAX_CONSECUTIVE_FAILURES - 1
  /\ obs.ret = WORK_DONE
  /\ _failures = MAX_CONSECUTIVE_FAILURES

SomeTransferSucceeded == \E i \in 1 .. Len(obs.log) : obs.log[i].status = 0

\* C7 as stated: a call in which some transfer succeeded leaves the counter no
\* higher than it found it.
C7_ResetOnAnySuccess ==
  (RunningWork /\ SomeTransferSucceeded) => _failures <= obs.pre.failures

\* C7, amended: the counter follows the status of the call, not of each
\* transfer: zero after a call whose transmit step returned 0, one more than
\* before after any other call, also when a transfer of that call succeeded;
\* and a call that returns 0 after transfers returns its last transfer's status.
C7_ResetOnCallSuccess ==
  RunningWork =>
    /\ _failures = IF obs.status = 0 THEN 0 ELSE obs.pre.failures + 1
    /\ (obs.status = 0 /\ obs.log # <<>> /\ ~obs.uninit =>
          obs.log[Len(obs.log)].status = 0)

\* The burst-end data transfer succeeded, the flush failed, and the call is
\* counted as a failure.
C7_Witness ==
  /\ RunningWork
  /\ Len(obs.log) = 2
  /\ obs.log[1].status = 0
  /\ obs.log[2].status # 0
  /\ obs.site = "L394"
  /\ _failures = obs.pre.failures + 1

Fields == <<_running, _in_burst, _failures, _16icbuf, _32fcbuf, heap>>

FieldsOf(s) == <<s.running, s.in_burst, s.failures, s.b16, s.b32, s.heap>>

\* stop() on a sink that is not running returns true, makes no device call and
\* changes no field.
StopOnStoppedIsNoOp ==
  (obs.op = "stop" /\ ~obs.pre.running) =>
    /\ obs.res = "returned"
    /\ obs.log = <<>>
    /\ Fields = FieldsOf(obs.pre)

\* C8 as stated: stop() on a stopped sink is a no-op returning success, and
\* the first stop() returns success too.
C8_StopAlwaysSucceeds ==
  /\ StopOnStoppedIsNoOp
  /\ obs.op = "stop" => obs.res = "returned"

\* C8, amended: stop() on a stopped sink is a no-op returning success; stop()
\* on a running sink returns success unless bladerf_enable_module fails, and
\* then it throws with running already false.
C8_StopTwice ==
  /\ StopOnStoppedIsNoOp
  /\ (obs.op = "stop" /\ obs.pre.running) =>
       /\ ~_running
       /\ Len(obs.log) = 1
       /\ obs.res = IF obs.log[1].status = 0 THEN "returned" ELSE "threw"

\* A second stop() directly after a first that returned.
C8_Witness ==
  /\ obs.op = "stop"
  /\ obs.by = "api"
  /\ prev_stop = "returned"
  /\ ~obs.pre.running
  /\ obs.res = "returned"

\* C9: start() on a running sink leaves it as a single start() does: running,
\* no scratch buffer of the earlier start() left live and unreachable, the
\* heap no larger, and in_burst as it was.
C9_StartIdempotent ==
  (obs.op = "start" /\ obs.pre.running /\ obs.res = "returned") =>
    /\ _running
    /\ (heap \ {_16icbuf, _32fcbuf}) \subseteq (obs.pre.heap \ {obs.pre.b16, obs.pre.b32})
    /\ Cardinality(heap) = Cardinality(obs.pre.heap)
    /\ _in_burst = obs.pre.in_burst

\* set_antenna() has read _running and not yet returned.
InSetAntenna == sa_pc # "idle"

\* set_antenna() has returned normally; obs.began is the _running it read.
SetAntennaReturned ==
  /\ obs.by = "set_antenna"
  /\ obs.site \in {"L521", "L524"}
  /\ obs.res = "returned"

\* C10: on a sink that set_antenna() found running, no start(), stop() or
\* work() of another thread runs between set_antenna()'s read of _running and
\* its return, and set_antenna() leaves _running as it read it.
C10_SetAntennaAtomic ==
  /\ (InSetAntenna /\ was_running) =>
       ~(obs.by = "api" /\ obs.op \in {"start", "stop", "work"})
  /\ (SetAntennaReturned /\ obs.began) => _running = obs.began
\* Both scratch buffers point to live heap blocks.
BuffersAllocated ==
  /\ _16icbuf # NULL
  /\ _32fcbuf # NULL
  /\ {_16icbuf, _32fcbuf} \subseteq heap

\* C12: between calls, after any sequence of start(), stop(), work() and
\* set_antenna() calls, failing ones included, the scratch buffers are
\* allocated if and only if running is true.
C12_BuffersIffRunning == BuffersAllocated <=> _running

\* start() is the one entry point outside transmit_with_tags that writes
\* in_burst, and it writes false.
StartClearsBurst == obs.op = "start" => ~_in_burst

\* A step that changes in_burst is a work() call that ran transmit_with_tags.
BurstChangedByTags ==
  _in_burst' # _in_burst =>
    /\ obs'.op = "work"
    /\ obs'.pre.running
    /\ _format = BLADERF_FORMAT_SC16_Q11_META

\* C13 as stated: in_burst changes only inside transmit_with_tags; start(),
\* stop(), set_antenna() and the rest of work() leave it unchanged.
C13_BurstChangesOnlyInTags == [][BurstChangedByTags]_vars

\* C13, amended: in_burst changes only inside transmit_with_tags and in
\* start(), which sets it to false (also the start() of set_antenna()'s
\* restart); stop() and the rest of work() leave it unchanged.
C13_BurstChangesInTagsOrStart ==
  /\ []StartClearsBurst
  /\ [][BurstChangedByTags \/ (obs'.op = "start" /\ ~_in_burst')]_vars

\* An open burst closed by the restart of set_antenna().
C13_Witness ==
  /\ obs.op = "start"
  /\ obs.by = "set_antenna"
  /\ obs.res = "returned"
  /\ obs.pre.in_burst
  /\ ~_in_burst
\* C14: a work() call that finds running false returns at once: no transfer,
\* no field changed, no scratch buffer touched; and every scratch buffer a
\* work() call touches is a live heap block.
C14_WorkNeedsRunning ==
  obs.op = "work" =>
    /\ ~obs.pre.running =>
         /\ obs.ret = 0
         /\ obs.log = <<>>
         /\ obs.touched = {}
         /\ Fields = FieldsOf(obs.pre)
    /\ obs.touched \subseteq obs.pre.heap

\* A work() call that falls between the stop() and the start() of a
\* set_antenna() cycle.
C14_Witness ==
  /\ obs.op = "work"
  /\ ~obs.pre.running
  /\ sa_pc \in {"L518", "L520"}
  /\ was_running
  /\ obs.ret = 0

\* The transfers of the call all belong to tags before the one it returned at.
NothingAtOrAfterReturn == \A i \in 1 .. Len(obs.log) : obs.log[i].at < obs.at

\* The first recognised tag is a burst-end and no burst is open.
EndWhileClosed ==
  /\ MetaWork
  /\ ~obs.pre.in_burst
  /\ Len(Recognised) >= 1
  /\ Recognised[1].key = "tx_eob"

\* A burst-start at s directly followed by a burst-end at an offset below s.
EndBeforeStart ==
  /\ MetaWork
  /\ ~obs.pre.in_burst
  /\ Len(Recognised) >= 2
  /\ Recognised[1].key = "tx_sob"
  /\ Recognised[2].key = "tx_eob"
  /\ Recognised[2].rel < Recognised[1].rel

\* C16: a burst-end processed while in_burst is false, or whose offset is below
\* the start index, makes the call return BLADERF_ERR_INVAL at once: no
\* transfer for that tag or any later one, and in_burst left as it was when
\* the error was detected.
C16_BadEndIsInvalid ==
  /\ (MetaWork /\ obs.site \in {"L349", "L358"}) =>
       /\ obs.status = BLADERF_ERR_INVAL
       /\ obs.tags[obs.at].key = "tx_eob"
       /\ NothingAtOrAfterReturn
       /\ _in_burst = (obs.site = "L358")
  /\ EndWhileClosed =>
       /\ obs.site = "L349"
       /\ obs.log = <<>>
       /\ ~_in_burst
  /\ EndBeforeStart =>
       /\ obs.site = "L358"
       /\ obs.log = <<>>
       /\ _in_burst

\* A burst-end in a batch that arrives outside a burst, with a later tag left
\* unprocessed.
C16_Witness ==
  /\ EndWhileClosed
  /\ obs.site = "L349"
  /\ obs.at = 1
  /\ Len(obs.tags) = 2
  /\ obs.tags[2].key = "tx_sob"
  /\ obs.log = <<>>

\* The call returned because the data transfer (L369) or the flush (L394) of
\* a burst-end failed.
EndTransferFailed == MetaWork /\ obs.site \in {"L369", "L394"}

\* What C17 says of both failures: the failing status is returned and nothing
\* is issued for a later tag; after a failed data transfer there is no flush.
EndFailureReturned ==
  EndTransferFailed =>
    /\ obs.log # <<>>
    /\ obs.status = obs.log[Len(obs.log)].status
    /\ obs.status # 0
    /\ obs.log[Len(obs.log)].at = obs.at
    /\ obs.tags[obs.at].key = "tx_eob"
    /\ (obs.site = "L369" => obs.log[Len(obs.log)].buf = "samples")
    /\ (obs.site = "L394" => IsFlushTx(obs.log[Len(obs.log)]))

\* C17 as stated: the sink is left with the same in_burst whichever of the two
\* sub-transfers failed (the burst is closed, as after the flush).
C17_SameBurstStateOnFailure ==
  /\ EndFailureReturned
  /\ EndTransferFailed => ~_in_burst

\* C17, amended: a failure of either sub-transfer is returned at once and no
\* later tag is processed; a failed data transfer is followed by no flush and
\* leaves in_burst true, a failed flush leaves in_burst false.
C17_FailureReturnedAtOnce ==
  /\ EndFailureReturned
  /\ EndTransferFailed => (_in_burst <=> obs.site = "L369")

\* The data transfer of a burst-end fails with a later tag in the batch: the
\* burst stays open.
C17_Witness ==
  /\ EndTransferFailed
  /\ obs.site = "L369"
  /\ obs.at = 1
  /\ Len(obs.tags) = 2
  /\ Len(obs.log) = 1
  /\ _in_burst

\* The tags are not in offset order.
Unsorted == \E i \in 1 .. Len(obs.tags) - 1 : obs.tags[i].rel > obs.tags[i + 1].rel

\* C19: whatever the tags' order and in_burst on entry, every transfer taken
\* from the batch lies inside it: index >= 0, count >= 1, index + count <= N;
\* the only other transfer is the zero flush of FLUSH_COUNT samples.
C19_TransfersInsideBatch ==
  (obs.op = "work" /\ obs.pre.running) =>
    \A i \in 1 .. Len(obs.log) :
      IF obs.log[i].buf = "samples"
        THEN /\ obs.log[i].idx >= 0
             /\ obs.log[i].count >= 1
             /\ obs.log[i].idx + obs.log[i].count <= obs.N
        ELSE /\ obs.log[i].buf = "zeros"
             /\ obs.log[i].count = FLUSH_COUNT

\* Unsorted tags with transfers: a burst-end, then a burst-start at a lower
\* offset, on a batch that arrives inside a burst.
C19_Witness ==
  /\ MetaWork
  /\ Unsorted
  /\ obs.pre.in_burst
  /\ Len(obs.log) = 3
  /\ obs.log[3].buf = "samples"
  /\ obs.log[3].idx < obs.log[1].count - 1
\* ---- C15

\* A batch of a run whose tags have been well-formed and whose transfers have
\* all succeeded since start(), this batch included.
WellFormedRun ==
  /\ MetaWork
  /\ obs.pre.hist.track # "off"
  /\ WellFormedBatch(obs.pre.hist.track = "open", obs.tags)
  /\ AllTransfersSucceeded

\* A data transfer as the framing wants it: the first of a burst carries the
\* start flags, a later one none.
FramedData(idx, count, first) ==
  [buf |-> "samples", idx |-> idx, count |-> count,
   flags |-> IF first THEN StartFlags ELSE {}]

FramedFlush ==
  [buf |-> "zeros", idx |-> 0, count |-> FLUSH_COUNT,
   flags |-> {BLADERF_META_FLAG_TX_BURST_END}]

\* The transfers the framing wants for a batch of N samples with burst tags
\* rec: `open` says a burst is open, `from` is where its unsent part begins
\* and `first` that nothing of it was sent yet.
RECURSIVE Framing(_, _, _, _, _)
Framing(open, from, first, rec, N) ==
  IF rec = <<>>
    THEN IF open THEN <<FramedData(from, N - from, first)>> ELSE <<>>
  ELSE IF Head(rec).key = "tx_sob"
    THEN Framing(TRUE, Head(rec).rel, TRUE, Tail(rec), N)
  ELSE <<FramedData(from, Head(rec).rel - from + 1, first), FramedFlush>>
         \o Framing(FALSE, 0, FALSE, Tail(rec), N)

\* The transfers of the call as the hardware saw them.
Seen ==
  [i \in 1 .. Len(obs.log) |->
     [buf |-> obs.log[i].buf, idx |-> obs.log[i].idx, count |-> obs.log[i].count,
      flags |-> obs.log[i].flags]]

\* The batch indices of the samples sent, in the order sent.
RECURSIVE SentOf(_)
SentOf(log) ==
  IF log = <<>>
    THEN <<>>
  ELSE IF Head(log).buf = "samples"
    THEN [k \in 1 .. Head(log).count |-> Head(log).idx + k - 1] \o SentOf(Tail(log))
  ELSE SentOf(Tail(log))

\* Sample i of the batch lies in a burst: one more burst has started at or
\* before it than has ended before it.
InABurst(i) ==
  (IF obs.pre.hist.track = "open" THEN 1 ELSE 0)
    + Cardinality({k \in 1 .. Len(Recognised) :
                     Recognised[k].key = "tx_sob" /\ Recognised[k].rel <= i})
    - Cardinality({k \in 1 .. Len(Recognised) :
                     Recognised[k].key = "tx_eob" /\ Recognised[k].rel < i})
  = 1

\* C15: over the batches of a run (since start()) with well-formed tags and
\* successful transfers, each burst reaches the hardware as a first data
\* transfer with {start-now, burst-start} from the burst-start offset, then
\* flag-less data transfers, then one zero flush with {burst-end}; the samples
\* sent are exactly those inside a burst, each once and in order; and in_burst
\* after the call is true iff a burst-start has had no burst-end yet.
C15_BurstFraming ==
  WellFormedRun =>
    /\ Seen = Framing(obs.pre.hist.track = "open", 0, FALSE, Recognised, obs.N)
    /\ \A i \in 1 .. Len(obs.log) : obs.log[i].meta
    /\ \A j \in 1 .. Len(SentOf(obs.log)) - 1 : SentOf(obs.log)[j] < SentOf(obs.log)[j + 1]
    /\ {SentOf(obs.log)[j] : j \in 1 .. Len(SentOf(obs.log))}
         = {i \in 0 .. obs.N - 1 : InABurst(i)}
    /\ obs.pre.in_burst = (obs.pre.hist.track = "open")
    /\ _in_burst = OpenAfter(obs.pre.hist.track = "open", obs.tags)
    /\ _in_burst = hist.hw_burst

\* A batch that arrives inside a burst opened by an earlier call, ends it and
\* starts the next one, which stays open.
C15_Witness ==
  /\ WellFormedRun
  /\ obs.pre.hist.track = "open"
  /\ Len(Recognised) = 2
  /\ Recognised[1].key = "tx_eob"
  /\ Recognised[2].rel = obs.N - 1
  /\ Len(obs.log) = 3
  /\ _in_burst

\* ---- C18

\* Every flag-less data transfer and every flush of `log` finds a burst open
\* at the hardware, h telling whether one is open before the first.
RECURSIVE FramedAtHardware(_, _)
FramedAtHardware(h, log) ==
  IF log = <<>>
    THEN TRUE
    ELSE /\ (Head(log).buf = "zeros" \/ Head(log).flags = {}) => h
         /\ FramedAtHardware(HwAfter(h, <<Head(log)>>), Tail(log))

\* C18: every flag-less data transfer and every flush is preceded, since the
\* last flush or start(), by a successful transfer with the burst-start flag;
\* and in_burst is true after a call only if the hardware was sent the
\* burst-start of the open burst.
C18_BurstStartReachedHardware ==
  MetaWork =>
    /\ FramedAtHardware(obs.pre.hist.hw_burst, obs.log)
    /\ _in_burst => hist.hw_burst

\* ---- C20

\* A batch that ended in a protocol error is counted like any failed batch.
CountsProtocolErrors ==
  (MetaWork /\ obs.site \in ProtocolSites) =>
    /\ obs.status = BLADERF_ERR_INVAL
    /\ _failures = obs.pre.failures + 1
    /\ obs.ret = IF _failures >= MAX_CONSECUTIVE_FAILURES THEN WORK_DONE ELSE obs.N

\* MAX_CONSECUTIVE_FAILURES or more batches in a row ended in a protocol error.
ProtocolErrorsOnly ==
  /\ MetaWork
  /\ hist.only_proto
  /\ streak >= MAX_CONSECUTIVE_FAILURES

\* start(), stop() and set_antenna() return with the counter they found.
RestartKeepsCounter ==
  obs.op \in {"start", "stop", "set_antenna"} => _failures = obs.pre.failures

ProtocolErrorsCounted ==
  /\ CountsProtocolErrors
  /\ ProtocolErrorsOnly => obs.ret = WORK_DONE
  /\ RestartKeepsCounter

\* C20: work() counts protocol errors toward the threshold, so
\* MAX_CONSECUTIVE_FAILURES consecutive batches ending in one, with no failed
\* transfer, end in WORK_DONE; and only work() changes the counter.
C20_ProtocolErrorsCount ==
  /\ []ProtocolErrorsCounted
  /\ [][_failures' # _failures => obs'.op = "work"]_vars

\* The third protocol error in a row, with no transfer in the batch.
C20_Witness ==
  /\ ProtocolErrorsOnly
  /\ streak = MAX_CONSECUTIVE_FAILURES
  /\ obs.pre.failures = MAX_CONSECUTIVE_FAILURES - 1
  /\ obs.site \in ProtocolSites
  /\ obs.log = <<>>
  /\ obs.ret = WORK_DONE
\* ---- C11

\* work() on a running two-channel sink that reports the batch consumed.
TwoChannelWork ==
  /\ obs.op = "work"
  /\ obs.pre.running
  /\ num_streams(_layout) = 2
  /\ obs.ret = obs.N

\* N frames of each of C channels in round-robin order, converted.
RoundRobin(N, C) ==
  [k \in 1 .. N * C |-> sc16q11([ch |-> (k - 1) % C, frame |-> (k - 1) \div C])]

\* C11: with two channels of N frames each, all reported consumed, the
\* converted buffer holds the N*2 samples ch0[0], ch1[0], ..., ch0[N-1],
\* ch1[N-1]: every consumed frame of every channel once, in round-robin order.
C11_AllFramesInterleaved ==
  TwoChannelWork => obs.buf = RoundRobin(obs.N, 2)
====
